---- MODULE Spec2Model ----
(***************************************************************************)
(* Model of cfi_dac.py: the lag-windowed pair search and weighted          *)
(* correlation inversion `cfi`, and the sweep drivers `hor_acfs` and       *)
(* `ver_acfs` that call it once per lag value.                             *)
(*                                                                         *)
(* Units.  All quantities are integers:                                    *)
(*   time            seconds                                               *)
(*   height          km                                                    *)
(*   latitude        1/1000 degree                                         *)
(*   longitude       1/5 degree                                            *)
(*   horizontal lag  1e-6 km (computed); the lag specification gives       *)
(*                   s_x, s_y, s_h and their tolerances in whole km        *)
(*   hour-of-day     seconds of the day, i.e. mod(t/3600,24) times 3600;   *)
(*                   the lag specification gives hour_of_day and           *)
(*                   dhour_of_day in 1/10 hour                             *)
(*   tau             a rational [num, den]; den = 0 is NaN (every          *)
(*                   comparison with it is false), which is what           *)
(*                   n.mean([]) returns                                    *)
(* Indices are 1-based here and 0-based in the source.                     *)
(***************************************************************************)
EXTENDS Integers, Sequences, FiniteSets, TLC

\* ------------------------------------------------------------------- state

VARIABLES
    mode,       \* "cfi", "hor_acfs" or "ver_acfs": the function that was called
    m,          \* the Measurement Table
    args,       \* the caller's arguments: a Lag Specification or driver arguments
    lspec,      \* the parameters of the running cfi call
    pc,         \* position of the program
    t_idx,      \* cfi: indices selected by the hour-of-day filter
    rows,       \* cfi: the arrays t, heights, lats, lons
    n_times,    \* cfi: number of windows
    t0,         \* cfi: earliest time of the working set
    i,          \* cfi: window index
    pairs,      \* cfi: accepted pair list
    pair_dict,  \* cfi: keys of the recorded pairs
    thist,      \* cfi: floored histogram counts
    tbins2,     \* cfi: interpolation points, times 2*NBins
    ws,         \* cfi: density under each pair's weight
    acf,        \* cfi: "nan" or "num", the state of acf and err
    ret,        \* the value the last cfi call returned
    li,         \* driver: lag index
    tau,        \* driver: its variable tau
    acfs        \* driver: the tau passed and the result stored, per lag index

vars == <<mode, m, args, lspec, pc, t_idx, rows, n_times, t0, i, pairs,
          pair_dict, thist, tbins2, ws, acf, ret, li, tau, acfs>>

driverVars == <<mode, m, args, li, tau, acfs>>


\* ------------------------------------------------------------------ bounds

\* largest number of rows of a Measurement Table
MaxMeas == 4
\* largest number of iterations of the window loop of one cfi call
MaxWindows == 3
\* number of lag values a sweep driver is called with
NLags == 2

\* ------------------------------------------------------- program constants

\* latdeg2km = 111.321 km per degree, here in 1e-6 km per 1/1000 degree
latdeg2km == 111321
\* londeg2km = 65.122785 km per degree, here in 1e-6 km per degree
londeg2km == 65122785
\* bins=48 of n.histogram
NBins == 48

\* 1 km in units of 1e-6 km
Km == 1000 * 1000
\* 24 hours in seconds
Day == 24 * 3600

\* ---------------------------------------------------------------- helpers

Abs(x) == IF x < 0 THEN -x ELSE x

SetMin(S) == CHOOSE x \in S : \A y \in S : x <= y
SetMax(S) == CHOOSE x \in S : \A y \in S : y <= x

Range(s) == {s[j] : j \in 1..Len(s)}

RECURSIVE SeqSum(_)
SeqSum(s) == IF Len(s) = 0 THEN 0 ELSE Head(s) + SeqSum(Tail(s))

\* the j-th smallest element of a finite set of integers
Nth(S, j) == CHOOSE x \in S : Cardinality({y \in S : y < x}) = j - 1

\* the elements of S in increasing order
Sorted(S) == [j \in 1..Cardinality(S) |-> Nth(S, j)]

\* exact squares beyond 32 bits: a natural number as hi * 10^6 + lo
BigSq(x) ==
    LET a == x \div 1000
        b == x % 1000
        c == (2 * a * b) \div 1000
        d == (2 * a * b) % 1000
        lo0 == d * 1000 + b * b
    IN  [hi |-> a * a + c + (lo0 \div Km), lo |-> lo0 % Km]

BigAdd(p, q) ==
    [hi |-> p.hi + q.hi + ((p.lo + q.lo) \div Km), lo |-> (p.lo + q.lo) % Km]

BigLess(p, q) == p.hi < q.hi \/ (p.hi = q.hi /\ p.lo < q.lo)

\* ------------------------------------------------------------------ inputs

Meas(t, h, lat, lon) == [t |-> t, height |-> h, lat |-> lat, lon |-> lon]

\* the measurements a table is drawn from, in table order (not time order)
Universe ==
    << Meas(111, 90,   0, 0),
       Meas(100, 90,  30, 0),
       Meas(114, 90,  25, 0),
       Meas(125, 90,   0, 1),
       Meas(112, 90, -20, 0),
       Meas(115, 90,  10, 0),
       Meas(117, 95,  30, 0),
       Meas(116, 90, -25, 0),
       Meas(101, 90,  30, 0),
       Meas(86040, 90, 20, 0) >>

\* the Measurement Tables: the sub-sequences of Universe of at most MaxMeas rows
Tables ==
    { [j \in 1..Cardinality(S) |-> Universe[Nth(S, j)]] :
        S \in {S \in SUBSET (1..Len(Universe)) : Cardinality(S) <= MaxMeas} }

Rat(x) == [num |-> x, den |-> 1]

\* cfi's parameters with the default values of its signature
Defaults ==
    [h0 |-> 90, dh |-> 2, ds_z |-> 1, s_z |-> 0, s_x |-> 0, ds_x |-> 1,
     s_y |-> 0, ds_y |-> 0, s_h |-> 0, ds_h |-> 100, tau |-> Rat(0),
     dtau |-> 300, horizontal_dist |-> FALSE,
     hour_of_day |-> 0, dhour_of_day |-> 480]

\* the Lag Specifications of a direct cfi call
LagSpecs ==
    { [Defaults EXCEPT !.tau = Rat(tv), !.s_z = sz, !.horizontal_dist = hd,
                       !.ds_h = 8, !.ds_y = 8, !.dtau = 10]
        : tv \in {0, 3, -3}, sz \in {0, 5}, hd \in BOOLEAN }
    \cup
    { [Defaults EXCEPT !.s_h = 3, !.ds_h = 2, !.horizontal_dist = TRUE,
                       !.tau = Rat(3), !.dtau = 10],
      [Defaults EXCEPT !.s_x = 13, !.ds_x = 2, !.s_y = -3, !.ds_y = 2,
                       !.tau = Rat(-3), !.dtau = 10],
      [Defaults EXCEPT !.ds_y = 8, !.hour_of_day = 0, !.dhour_of_day = 2,
                       !.dtau = 10],
      [Defaults EXCEPT !.ds_y = 8, !.hour_of_day = 120, !.dhour_of_day = 20,
                       !.dtau = 10],
      [Defaults EXCEPT !.ds_y = 8, !.hour_of_day = 239, !.dhour_of_day = 4,
                       !.dtau = 300] }
    \cup
    { [Defaults EXCEPT !.ds_y = 8, !.dtau = 0],
      [Defaults EXCEPT !.ds_y = 8, !.ds_x = 0, !.dtau = 10],
      [Defaults EXCEPT !.dtau = 10],
      [Defaults EXCEPT !.horizontal_dist = TRUE, !.ds_h = 0, !.dtau = 10],
      [Defaults EXCEPT !.ds_y = 8, !.ds_z = 0, !.dtau = 10],
      [Defaults EXCEPT !.ds_y = 8, !.dh = 0, !.dtau = 10],
      Defaults }

\* ------------------------------------------------- cfi: hour-of-day filter

\* hod = n.mod(t/3600.0, 24), in seconds of the day
Hod(t) == t % Day

\* n.abs(hod - hour_of_day) <= dhour_of_day/2.0, both sides times 72000
HourSelected(t, sp) ==
    Abs(20 * Hod(t) - 7200 * sp.hour_of_day) <= 3600 * sp.dhour_of_day

\* t_idx = n.where(...)[0]: the selected rows, in table order
HourFilter(tab, sp) ==
    Sorted({k \in 1..Len(tab) : HourSelected(tab[k].t, sp)})

\* t = t[t_idx], heights = heights[t_idx], ...: the working set
Select(tab, idx) == [j \in 1..Len(idx) |-> tab[idx[j]]]

\* --------------------------------------------------- cfi: the time windows

Times(w) == {w[k].t : k \in 1..Len(w)}

\* n_times = int((n.max(t) - n.min(t)) / dtau) raises: n.max of an empty array
\* is a ValueError; with dtau = 0 the quotient of the float times is inf or
\* nan and int() raises OverflowError or ValueError
NTimesRaises(w, sp) == Len(w) = 0 \/ sp.dtau = 0

NTimes(w, sp) == (SetMax(Times(w)) - SetMin(Times(w))) \div sp.dtau

\* t0 = n.min(t)
T0(w) == SetMin(Times(w))

\* it0 = i*dtau + t0
It0(sp, tmin, wi) == wi * sp.dtau + tmin

\* it1 = n.max(t) in the last window, i*dtau + 2*dtau + t0 otherwise
It1(w, sp, tmin, ntimes, wi) ==
    IF wi = ntimes - 1 THEN SetMax(Times(w))
    ELSE wi * sp.dtau + 2 * sp.dtau + tmin

\* a + q < b and b < a + q for a rational q (false when q is NaN)
AddLess(a, q, b) == q.den > 0 /\ a * q.den + q.num < b * q.den
LessAdd(b, a, q) == q.den > 0 /\ b * q.den < a * q.den + q.num

\* (t > it0) & (t < it1)
InRefRange(w, it0, it1, k) == w[k].t > it0 /\ w[k].t < it1

\* (t > (it0 + tau)) & (t < (it1 + tau))
InLagRange(w, sp, it0, it1, l) ==
    AddLess(it0, sp.tau, w[l].t) /\ LessAdd(w[l].t, it1, sp.tau)

\* idx0: reference set of a window
Idx0(w, sp, it0, it1) ==
    {k \in 1..Len(w) :
        /\ 2 * w[k].height > 2 * sp.h0 - sp.dh
        /\ 2 * w[k].height < 2 * sp.h0 + sp.dh
        /\ InRefRange(w, it0, it1, k)}

\* idx1: lagged set of a window
Idx1(w, sp, it0, it1) ==
    {l \in 1..Len(w) :
        /\ 2 * w[l].height > 2 * (sp.h0 + sp.s_z) - sp.dh
        /\ 2 * w[l].height < 2 * (sp.h0 + sp.s_z) + sp.dh
        /\ InLagRange(w, sp, it0, it1, l)}

\* ------------------------------------------------- cfi: the lag predicates

\* latdeg2km*(lats[l]-lat0), in 1e-6 km
North(w, k, l) == latdeg2km * (w[l].lat - w[k].lat)

\* londeg2km*(lons[l]-lon0), in 1e-6 km
East(w, k, l) == (londeg2km * (w[l].lon - w[k].lon)) \div 5

\* the square of hor_dist
DistSq(w, k, l) ==
    BigAdd(BigSq(Abs(North(w, k, l))), BigSq(Abs(East(w, k, l))))

\* n.abs(n.sqrt(...) - s_h) < ds_h/2.0
HorDistFilter(w, sp, k, l) ==
    LET low == (2 * sp.s_h - sp.ds_h) * (Km \div 2)
        up  == (2 * sp.s_h + sp.ds_h) * (Km \div 2)
        d2  == DistSq(w, k, l)
    IN  /\ (low < 0 \/ BigLess(BigSq(low), d2))
        /\ up > 0
        /\ BigLess(d2, BigSq(up))

\* (n.abs(north - s_y) < ds_y/2.0) & (n.abs(east - s_x) < ds_x/2.0)
XYDistFilter(w, sp, k, l) ==
    /\ 2 * Abs(North(w, k, l) - sp.s_y * Km) < sp.ds_y * Km
    /\ 2 * Abs(East(w, k, l) - sp.s_x * Km) < sp.ds_x * Km

DistFilter(w, sp, k, l) ==
    IF sp.horizontal_dist THEN HorDistFilter(w, sp, k, l)
    ELSE XYDistFilter(w, sp, k, l)

\* n.abs((heights[idx1]-hg0) - s_z) < (ds_z/2.0)
VertFilter(w, sp, k, l) ==
    2 * Abs(w[l].height - w[k].height - sp.s_z) < sp.ds_z

\* TauFilter without n.abs: only the upper side of the window is tested
TauFilter_NoAbs(w, sp, k, l) ==
    /\ sp.tau.den > 0
    /\ 2 * sp.tau.den * (w[l].t - w[k].t) - 2 * sp.tau.num
         < sp.dtau * sp.tau.den

\* n.abs(t[idx1] - mt0 - tau) < dtau/2.0
TauFilter(w, sp, k, l) ==
    /\ sp.tau.den > 0
    /\ Abs(2 * sp.tau.den * (w[l].t - w[k].t) - 2 * sp.tau.num)
         < sp.dtau * sp.tau.den

\* idxt: the lagged measurements that pair with reference measurement k
Idxt(w, sp, idx1, k) ==
    {l \in idx1 :
        /\ DistFilter(w, sp, k, l)
        /\ VertFilter(w, sp, k, l)
        /\ l # k
        /\ TauFilter(w, sp, k, l)}

\* NotTooClose without the test of the time separation
NotTooClose_NoTime(w, k, l) ==
    BigLess(BigSq(2 * Km), DistSq(w, k, l))

\* hor_dist > 2.0 and n.abs(t[l]-t[k]) > 2.0
NotTooClose(w, k, l) ==
    /\ BigLess(BigSq(2 * Km), DistSq(w, k, l))
    /\ Abs(w[l].t - w[k].t) > 2

\* "%d-%d"%(k,l) not in pair_dict
NotSeen(dict, k, l) == <<k, l>> \notin dict

\* PairKeys without the key of the reversed pair
PairKeys_OneKey(k, l) == {<<k, l>>}

\* the keys "%d-%d"%(k,l) and "%d-%d"%(l,k) set in pair_dict
PairKeys(k, l) == {<<k, l>>, <<l, k>>}

\* the loops over k in idx0 and l in idxt of one window, both in index
\* order; c enumerates (k,l) row by row, acc is [pairs, pair_dict]
RECURSIVE ScanPairs(_, _, _, _, _, _)
ScanPairs(w, sp, idx0, idx1, c, acc) ==
    IF c >= Len(w) * Len(w) THEN acc
    ELSE LET k == (c \div Len(w)) + 1
             l == (c % Len(w)) + 1
         IN  IF /\ k \in idx0
                /\ l \in Idxt(w, sp, idx1, k)
                /\ NotSeen(acc.pair_dict, k, l)
                /\ NotTooClose(w, k, l)
             THEN ScanPairs(w, sp, idx0, idx1, c + 1,
                    [pairs |-> Append(acc.pairs, <<k, l>>),
                     pair_dict |-> acc.pair_dict \cup PairKeys(k, l)])
             ELSE ScanPairs(w, sp, idx0, idx1, c + 1, acc)

\* the body of `for i in range(n_times)`
WindowBody(w, sp, tmin, ntimes, wi, acc) ==
    LET it0 == It0(sp, tmin, wi)
        it1 == It1(w, sp, tmin, ntimes, wi)
    IN  ScanPairs(w, sp, Idx0(w, sp, it0, it1),
                  Idx1(w, sp, it0, it1), 0, acc)

\* the whole window loop, from window i on
RECURSIVE WindowLoopFrom(_, _, _, _, _, _)
WindowLoopFrom(w, sp, tmin, ntimes, wi, acc) ==
    IF wi >= ntimes THEN acc
    ELSE WindowLoopFrom(w, sp, tmin, ntimes, wi + 1,
                        WindowBody(w, sp, tmin, ntimes, wi, acc))

\* the accepted pair list of a cfi call that does not raise
PairSearch(tab, sp) ==
    LET w == Select(tab, HourFilter(tab, sp))
    IN  WindowLoopFrom(w, sp, T0(w), NTimes(w, sp), 0,
                       [pairs |-> <<>>, pair_dict |-> {}]).pairs

\* ----------------------------------------------- cfi: diurnal density model

\* tods: the reference time t[k] of every accepted pair
Tods(w, prs) == [j \in 1..Len(prs) |-> w[prs[j][1]].t]

\* taus: the realized temporal lag t[l]-t[k] of every accepted pair
Taus(w, prs) == [j \in 1..Len(prs) |-> w[prs[j][2]].t - w[prs[j][1]].t]

\* n.mod(tods/3600.0, 24): the hours that are counted in the histogram
HistHours(w, prs) == [j \in 1..Len(prs) |-> Tods(w, prs)[j] % Day]

\* the range n.histogram bins when it is given none: (0,1) for no data,
\* (min,max) otherwise, widened by 0.5 on both sides when min = max
HistRange(xs) ==
    IF Len(xs) = 0 THEN [lo |-> 0, hi |-> 3600]
    ELSE IF SetMin(Range(xs)) = SetMax(Range(xs))
         THEN [lo |-> SetMin(Range(xs)) - 1800, hi |-> SetMax(Range(xs)) + 1800]
         ELSE [lo |-> SetMin(Range(xs)), hi |-> SetMax(Range(xs))]

\* the bin of n.histogram that counts x: equal-width bins over the range,
\* the last one closed on the right
BinOf(x, r) ==
    IF x = r.hi THEN NBins
    ELSE (((x - r.lo) * NBins) \div (r.hi - r.lo)) + 1

\* thist of thist,tbins = n.histogram(..., bins=48)
Histogram(xs) ==
    [b \in 1..NBins |->
        Cardinality({j \in 1..Len(xs) : BinOf(xs[j], HistRange(xs)) = b})]

\* FloorCount without the floor
FloorCount_None(c) == c

\* thist[thist < 1.0] = 1.0
FloorCount(c) == IF c < 1 THEN 1 ELSE c

\* tbins2, times 2*NBins: the bin centres 0.5*(tbins[b]+tbins[b+1]), the
\* first set to 0 hours and the last to 24 hours
Tbins2(xs) ==
    [b \in 1..NBins |->
        IF b = 1 THEN 0
        ELSE IF b = NBins THEN 2 * NBins * Day
        ELSE 2 * NBins * HistRange(xs).lo
               + (2 * b - 1) * (HistRange(xs).hi - HistRange(xs).lo)]

\* the interpolation points next to X: the indices of the largest point <= X
\* and of the smallest point >= X (0 when there is none), found from point b on
\* (acc.lo < 0 never holds: reading acc keeps the evaluation shallow)
RECURSIVE Bracket(_, _, _, _)
Bracket(tb, X, b, acc) ==
    IF acc.lo < 0 \/ b > NBins THEN acc
    ELSE Bracket(tb, X, b + 1,
           [lo |-> IF tb[b] <= X /\ (acc.lo = 0 \/ tb[b] > tb[acc.lo])
                   THEN b ELSE acc.lo,
            hi |-> IF tb[b] >= X /\ (acc.hi = 0 \/ tb[b] < tb[acc.hi])
                   THEN b ELSE acc.hi])

\* countf = si.interp1d(tbins2, thist) at hour x (seconds of the day): the
\* points are sorted by interp1d, a value outside them is a ValueError
\* (ok = FALSE), a value inside is interpolated linearly: num/den
Countf(tb, th, x) ==
    LET X == 2 * NBins * x
        br == Bracket(tb, X, 1, [lo |-> 0, hi |-> 0])
    IN  IF br.lo = 0 \/ br.hi = 0
        THEN [ok |-> FALSE, num |-> 0, den |-> 0]
        ELSE IF tb[br.lo] = tb[br.hi]
             THEN [ok |-> TRUE, num |-> th[br.lo], den |-> 1]
             ELSE [ok |-> TRUE,
                   num |-> th[br.lo] * (tb[br.hi] - tb[br.lo])
                             + (th[br.hi] - th[br.lo]) * (X - tb[br.lo]),
                   den |-> tb[br.hi] - tb[br.lo]]

\* n.mod((t[k]-t0)/3600, 24.0): the hour at which countf is evaluated
WeightHour(w, t0v, k) == (w[k].t - t0v) % Day

\* w = 1.0/countf(...): the density under the weight of every accepted pair
Densities(w, prs, t0v, tb, th) ==
    [j \in 1..Len(prs) |-> Countf(tb, th, WeightHour(w, t0v, prs[j][1]))]

\* n.mean(taus): NaN (den = 0) for no pairs
MeanTau(w, prs) ==
    [num |-> SeqSum(Taus(w, prs)), den |-> Len(prs)]

\* the outcomes of the try block: with no pairs `w` is unbound and the bare
\* except sets NaN; otherwise lstsq and inv either succeed or raise
SolveOutcomes(prs) == IF Len(prs) = 0 THEN {"nan"} ELSE {"nan", "num"}

\* -------------------------------------------------------- the sweep drivers

\* the lag values s_h[li] of hor_acfs, in km
ShLag(lix) == 3 * lix
\* the lag values s_z[li] of ver_acfs, in km
SzLag(lix) == 5 * lix

\* the arguments of a sweep driver
DriverArgs ==
    { [h0 |-> 90, dh |-> 2, tau |-> Rat(tv), ds_h |-> 8, ds_z |-> 1,
       dtau |-> 10] : tv \in {0, 3} }

\* cfi(meas, h0=h0, dh=dh, s_z=0.0, s_h=s_h[li], ds_h=ds_h, ds_z=ds_z,
\*     tau=tau, dtau=dtau, horizontal_dist=True)
HorSpec(a, tauv, lix) ==
    [Defaults EXCEPT !.h0 = a.h0, !.dh = a.dh, !.s_z = 0, !.s_h = ShLag(lix),
                     !.ds_h = a.ds_h, !.ds_z = a.ds_z, !.tau = tauv,
                     !.dtau = a.dtau, !.horizontal_dist = TRUE]

\* cfi(meas, h0=h0, dh=dh, s_z=s_z[li], s_h=0.0, ds_h=ds_h, ds_z=ds_z,
\*     tau=tau, dtau=dtau, horizontal_dist=True)
VerSpec(a, tauv, lix) ==
    [Defaults EXCEPT !.h0 = a.h0, !.dh = a.dh, !.s_z = SzLag(lix), !.s_h = 0,
                     !.ds_h = a.ds_h, !.ds_z = a.ds_z, !.tau = tauv,
                     !.dtau = a.dtau, !.horizontal_dist = TRUE]

\* ------------------------------------------------------------- initial state

\* the inputs are kept to those whose window loop is at most MaxWindows long
InputOK(tab, sp) ==
    LET r == Select(tab, HourFilter(tab, sp))
    IN  IF NTimesRaises(r, sp) THEN TRUE ELSE NTimes(r, sp) <= MaxWindows

NoRet == [acf |-> "none", tau |-> Rat(0)]

\* the locals of cfi at entry
CfiEntry(tab, sp) ==
    /\ lspec = sp
    /\ t_idx = <<>>
    /\ rows = tab
    /\ n_times = 0
    /\ t0 = 0
    /\ i = 0
    /\ pairs = <<>>
    /\ pair_dict = {}
    /\ thist = <<>>
    /\ tbins2 = <<>>
    /\ ws = <<>>
    /\ acf = "zeros"

Init ==
    /\ m \in Tables
    /\ mode \in {"cfi", "hor_acfs", "ver_acfs"}
    /\ IF mode = "cfi"
       THEN /\ args \in LagSpecs
            /\ InputOK(m, args)
            /\ pc = "filter"
            /\ tau = args.tau
            /\ CfiEntry(m, args)
       ELSE /\ args \in DriverArgs
            /\ InputOK(m, HorSpec(args, args.tau, 0))
            /\ pc = "sweep"
            /\ tau = args.tau
            /\ CfiEntry(m, Defaults)
    /\ ret = NoRet
    /\ li = 0
    /\ acfs = <<>>

\* ------------------------------------------------------------ cfi: actions

\* lines 160-170: the hour-of-day filter
Filter ==
    /\ pc = "filter"
    /\ t_idx' = HourFilter(m, lspec)
    /\ rows' = Select(m, HourFilter(m, lspec))
    /\ pc' = "n_times"
    /\ UNCHANGED <<lspec, n_times, t0, i, pairs, pair_dict, thist, tbins2, ws,
                   acf, ret>>
    /\ UNCHANGED driverVars

\* lines 187-188: n_times and t0, or the exception they raise
CountWindows ==
    /\ pc = "n_times"
    /\ IF NTimesRaises(rows, lspec)
       THEN /\ pc' = "raised"
            /\ UNCHANGED <<n_times, t0>>
       ELSE /\ n_times' = NTimes(rows, lspec)
            /\ t0' = T0(rows)
            /\ pc' = "loop"
    /\ UNCHANGED <<lspec, t_idx, rows, i, pairs, pair_dict, thist, tbins2, ws,
                   acf, ret>>
    /\ UNCHANGED driverVars

\* lines 190-237: one iteration of the window loop
Window ==
    /\ pc = "loop"
    /\ i < n_times
    /\ LET acc == WindowBody(rows, lspec, t0, n_times, i,
                             [pairs |-> pairs, pair_dict |-> pair_dict])
       IN  /\ pairs' = acc.pairs
           /\ pair_dict' = acc.pair_dict
    /\ i' = i + 1
    /\ UNCHANGED <<lspec, pc, t_idx, rows, n_times, t0, thist, tbins2, ws,
                   acf, ret>>
    /\ UNCHANGED driverVars

\* lines 241-255: the histogram of the reference hours and its interpolant
Density ==
    /\ pc = "loop"
    /\ i >= n_times
    /\ LET h == Histogram(HistHours(rows, pairs))
       IN  thist' = [b \in 1..NBins |-> FloorCount(h[b])]
    /\ tbins2' = Tbins2(HistHours(rows, pairs))
    /\ pc' = "weights"
    /\ UNCHANGED <<lspec, t_idx, rows, n_times, t0, i, pairs, pair_dict, ws,
                   acf, ret>>
    /\ UNCHANGED driverVars

\* lines 257-294: the weight of every pair; countf raises outside its domain
Weights ==
    /\ pc = "weights"
    /\ LET ds == Densities(rows, pairs, t0, tbins2, thist)
       IN  IF \E j \in 1..Len(ds) : ~ds[j].ok
           THEN /\ pc' = "raised"
                /\ UNCHANGED ws
           ELSE /\ ws' = ds
                /\ pc' = "solve"
    /\ UNCHANGED <<lspec, t_idx, rows, n_times, t0, i, pairs, pair_dict,
                   thist, tbins2, acf, ret>>
    /\ UNCHANGED driverVars

\* lines 295-309: the least-squares solve inside try/except
Solve ==
    /\ pc = "solve"
    /\ acf' \in SolveOutcomes(pairs)
    /\ pc' = "return"
    /\ UNCHANGED <<lspec, t_idx, rows, n_times, t0, i, pairs, pair_dict,
                   thist, tbins2, ws, ret>>
    /\ UNCHANGED driverVars

\* line 320: return(acf, err, n.mean(taus), ...)
Return ==
    /\ pc = "return"
    /\ ret' = [acf |-> acf, tau |-> MeanTau(rows, pairs)]
    /\ pc' = IF mode = "cfi" THEN "done" ELSE "store"
    /\ UNCHANGED <<lspec, t_idx, rows, n_times, t0, i, pairs, pair_dict,
                   thist, tbins2, ws, acf>>
    /\ UNCHANGED driverVars

\* -------------------------------------------------------- drivers: actions

\* the locals of the cfi call a driver makes
CallCfi(sp) ==
    /\ lspec' = sp
    /\ t_idx' = <<>>
    /\ rows' = m
    /\ n_times' = 0
    /\ t0' = 0
    /\ i' = 0
    /\ pairs' = <<>>
    /\ pair_dict' = {}
    /\ thist' = <<>>
    /\ tbins2' = <<>>
    /\ ws' = <<>>
    /\ acf' = "zeros"
    /\ pc' = "filter"

\* hor_acfs line 336, the call: cfi(..., s_h=s_h[li], ..., tau=tau, ...)
HorCall ==
    /\ mode = "hor_acfs"
    /\ pc = "sweep"
    /\ li < NLags
    /\ CallCfi(HorSpec(args, tau, li))
    /\ UNCHANGED ret
    /\ UNCHANGED driverVars

\* ver_acfs line 396, the call: cfi(..., s_z=s_z[li], ..., tau=tau, ...)
VerCall ==
    /\ mode = "ver_acfs"
    /\ pc = "sweep"
    /\ li < NLags
    /\ CallCfi(VerSpec(args, tau, li))
    /\ UNCHANGED ret
    /\ UNCHANGED driverVars

\* lines 336-341 and 396-401: acf,err,tau,sx,sy,sz,sh = cfi(...) assigns the
\* mean realized lag to the driver's tau; the result is stored at index li
Store ==
    /\ pc = "store"
    /\ tau' = ret.tau
    /\ acfs' = Append(acfs, [tau |-> lspec.tau, acf |-> ret.acf,
                             pairs |-> pairs])
    /\ li' = li + 1
    /\ pc' = "sweep"
    /\ UNCHANGED <<mode, m, args, lspec, t_idx, rows, n_times, t0, i, pairs,
                   pair_dict, thist, tbins2, ws, acf, ret>>

\* lines 342-353: the loop is over
SweepEnd ==
    /\ pc = "sweep"
    /\ li >= NLags
    /\ pc' = "done"
    /\ UNCHANGED <<mode, m, args, lspec, t_idx, rows, n_times, t0, i, pairs,
                   pair_dict, thist, tbins2, ws, acf, ret, li, tau, acfs>>

Next ==
    \/ Filter
    \/ CountWindows
    \/ Window
    \/ Density
    \/ Weights
    \/ Solve
    \/ Return
    \/ HorCall
    \/ VerCall
    \/ Store
    \/ SweepEnd

Spec == Init /\ [][Next]_vars

\* ------------------------------------------------------------------ claims

\* the cfi call has ended: it returned to its caller or raised
Ended == pc \in {"done", "raised"}

\* C1: a cfi call on an empty Measurement Table, or with an hour-of-day
\* restriction that selects no measurement, returns all-NaN acf and err and
\* does not raise.
C1_EmptyReturnsNaN ==
    (mode = "cfi" /\ Ended /\ Len(HourFilter(m, lspec)) = 0)
        => (pc = "done" /\ ret.acf = "nan")

\* C2: for a working set of at least two measurements, any two measurements
\* k, l with |t(l) - t(k) - tau| < dtau/2 lie, k in the reference time range
\* and l in the lagged time range, of one and the same window.
C2_WindowsCoverLag ==
    (pc = "loop" /\ Len(rows) >= 2)
        => \A k \in 1..Len(rows) : \A l \in 1..Len(rows) :
             (k # l /\ TauFilter(rows, lspec, k, l))
                => \E wi \in 0..(n_times - 1) :
                     /\ InRefRange(rows, It0(lspec, t0, wi),
                                   It1(rows, lspec, t0, n_times, wi), k)
                     /\ InLagRange(rows, lspec, It0(lspec, t0, wi),
                                   It1(rows, lspec, t0, n_times, wi), l)

\* |hod - hour_of_day| measured round the 24 hour circle, at most
\* dhour_of_day/2 (both sides times 72000)
CircSelected(t, sp) ==
    LET a == Abs(20 * Hod(t) - 7200 * sp.hour_of_day) % (20 * Day)
    IN  (IF a <= 20 * Day - a THEN a ELSE 20 * Day - a)
            <= 3600 * sp.dhour_of_day

\* C3: the working set is exactly the measurements whose hour-of-day lies
\* within dhour_of_day/2 of hour_of_day, measured circularly modulo 24.
C3_WrapAwareFilter ==
    (pc = "n_times")
        => Range(t_idx) = {k \in 1..Len(m) : CircSelected(m[k].t, lspec)}

\* C4: the accepted pair list holds no entry twice and never both (k,l) and
\* (l,k).
C4_OneRepresentative ==
    \A a \in 1..Len(pairs) : \A b \in 1..Len(pairs) :
        a # b => /\ pairs[a] # pairs[b]
                 /\ pairs[a] # <<pairs[b][2], pairs[b][1]>>

\* the windows in which k is a reference and l a lagged measurement that
\* passes the lag predicates
WindowsOf(k, l) ==
    {wi \in 0..(n_times - 1) :
        /\ k \in Idx0(rows, lspec, It0(lspec, t0, wi),
                      It1(rows, lspec, t0, n_times, wi))
        /\ l \in Idxt(rows, lspec,
                      Idx1(rows, lspec, It0(lspec, t0, wi),
                           It1(rows, lspec, t0, n_times, wi)), k)}

\* an accepted pair was a candidate in two windows, and so was its reverse
C4_Witness ==
    /\ pc = "weights"
    /\ \E a \in 1..Len(pairs) :
         /\ Cardinality(WindowsOf(pairs[a][1], pairs[a][2])) >= 2
         /\ Cardinality(WindowsOf(pairs[a][2], pairs[a][1])) >= 2

\* C5: every accepted pair has horizontal separation > 2 km and time
\* separation > 2 s, and its two indices differ.
C5_DistanceFloor ==
    \A a \in 1..Len(pairs) :
        LET k == pairs[a][1]
            l == pairs[a][2]
        IN  /\ BigLess(BigSq(2 * Km), DistSq(rows, k, l))
            /\ rows[l].t - rows[k].t > 2 \/ rows[k].t - rows[l].t > 2
            /\ k # l

\* the candidates of the whole run: k a reference and l a lagged measurement
\* of one window that passes the lag predicates
Candidates ==
    {c \in (1..Len(rows)) \X (1..Len(rows)) : WindowsOf(c[1], c[2]) # {}}

\* a pair was accepted while one candidate was rejected for its distance and
\* another for its time separation
C5_Witness ==
    /\ pc = "weights"
    /\ Len(pairs) > 0
    /\ \E c \in Candidates :
         ~BigLess(BigSq(2 * Km), DistSq(rows, c[1], c[2]))
    /\ \E c \in Candidates :
         /\ BigLess(BigSq(2 * Km), DistSq(rows, c[1], c[2]))
         /\ Abs(rows[c[2]].t - rows[c[1]].t) <= 2

NegRat(q) == [num |-> -q.num, den |-> q.den]

\* the Lag Specification with tau, s_x, s_y, s_z and s_h negated
Mirror(sp) ==
    [sp EXCEPT !.tau = NegRat(sp.tau), !.s_x = -sp.s_x, !.s_y = -sp.s_y,
               !.s_z = -sp.s_z, !.s_h = -sp.s_h]

\* C6 as claimed: every pair (k,l) a cfi call accepts is accepted as (l,k) by
\* the cfi call on the same table with tau, s_x, s_y, s_z and s_h negated.
C6_MirroredRunAccepts ==
    (mode = "cfi" /\ pc = "done")
        => \A a \in 1..Len(pairs) :
             <<pairs[a][2], pairs[a][1]>> \in Range(PairSearch(m, Mirror(lspec)))

\* the Lag Specification with tau, s_x, s_y and s_z negated
MirrorSigned(sp) ==
    [sp EXCEPT !.tau = NegRat(sp.tau), !.s_x = -sp.s_x, !.s_y = -sp.s_y,
               !.s_z = -sp.s_z]

\* C6 as amended: for every accepted pair (k,l), the pair (l,k) passes the
\* spatial, vertical and temporal lag predicates of the Lag Specification
\* with tau, s_x, s_y and s_z negated (s_h, an unsigned distance, kept) and
\* passes the 2 km / 2 s guard.
C6_MirroredPredicates ==
    \A a \in 1..Len(pairs) :
        LET k == pairs[a][1]
            l == pairs[a][2]
        IN  /\ DistFilter(rows, MirrorSigned(lspec), l, k)
            /\ VertFilter(rows, MirrorSigned(lspec), l, k)
            /\ TauFilter(rows, MirrorSigned(lspec), l, k)
            /\ NotTooClose(rows, l, k)

\* a direct call with a non-zero tau and a non-zero spatial lag has accepted
\* a pair
C6_Witness ==
    /\ mode = "cfi"
    /\ pc = "done"
    /\ Len(pairs) > 0
    /\ lspec.tau.num # 0
    /\ lspec.s_z # 0 \/ lspec.s_y # 0 \/ lspec.s_h # 0

\* hours of the day at which the interpolant is probed: both ends of
\* [0,24), noon, the first bin centre of a 48-bin day, and the hour-of-day of
\* every measurement of the working set in both hour coordinates
ProbeHours ==
    {0, 900, Day \div 2, Day - 1}
        \cup {Hod(rows[k].t) : k \in 1..Len(rows)}
        \cup {WeightHour(rows, t0, k) : k \in 1..Len(rows)}

\* C7: the density interpolant that cfi builds can be evaluated at every
\* hour in [0,24) (its points span 0..24 h, no evaluation raises), its value
\* is > 0 there, and the weight of every accepted pair is finite and > 0.
C7_WeightsPositive ==
    /\ (pc = "weights")
         => /\ \E b \in 1..NBins : tbins2[b] <= 0
            /\ \E b \in 1..NBins : tbins2[b] >= 2 * NBins * Day
            /\ \A x \in ProbeHours :
                 LET c == Countf(tbins2, thist, x)
                 IN  c.ok /\ c.num > 0 /\ c.den > 0
    /\ (pc = "raised") => NTimesRaises(rows, lspec)
    /\ (pc = "solve")
         => /\ Len(ws) = Len(pairs)
            /\ \A j \in 1..Len(ws) : ws[j].ok /\ ws[j].num > 0 /\ ws[j].den > 0

\* weights were computed for pairs whose reference times share one hour
C7_Witness ==
    /\ pc = "solve"
    /\ Len(pairs) >= 2
    /\ \A j \in 1..Len(pairs) :
         HistHours(rows, pairs)[j] = HistHours(rows, pairs)[1]

\* a tolerance that the pair search uses is zero
ZeroTolerance(sp) ==
    \/ sp.dtau = 0
    \/ sp.ds_z = 0
    \/ sp.dh = 0
    \/ (sp.horizontal_dist /\ sp.ds_h = 0)
    \/ (~sp.horizontal_dist /\ (sp.ds_x = 0 \/ sp.ds_y = 0))

\* C8: a cfi call on a non-empty table (here: a non-empty working set) with
\* a zero tolerance returns all-NaN acf and err and does not raise.
C8_ZeroToleranceReturnsNaN ==
    (mode = "cfi" /\ Ended /\ Len(t_idx) > 0 /\ ZeroTolerance(lspec))
        => (pc = "done" /\ ret.acf = "nan")

\* C9: every cfi call of a sweep driver is made with the tau the caller
\* passed to the driver.
C9_DriverTauUnchanged ==
    (mode # "cfi" /\ pc = "filter") => lspec.tau = args.tau

\* equality of the rationals a.num/a.den and b.num/b.den
SameValue(a, b) == a.num * b.den = b.num * a.den

\* C10: the weight of every accepted pair (k,l) is the inverse of the density
\* model evaluated at mod(t(k)/3600, 24), the hour under which t(k) was
\* counted in the histogram.
C10_WeightAtHistogramHour ==
    (pc = "solve")
        => \A j \in 1..Len(pairs) :
             SameValue(ws[j], Countf(tbins2, thist, HistHours(rows, pairs)[j]))

\* the number of accepted pairs whose reference hour-of-day lies in the
\* half-hour [(b-1)/2, b/2) of the day
HalfHourCount(b) ==
    Cardinality({j \in 1..Len(pairs) :
                    HistHours(rows, pairs)[j] \div (Day \div NBins) = b - 1})

\* C11: the density histogram always has 48 bins of 30 minutes covering
\* hour 0 to hour 24: bin b holds the (floored) number of pairs whose
\* reference hour-of-day lies in [(b-1)/2, b/2), and the centre of every
\* inner bin is (2b-1)/4 hours, whatever hours the pairs span (stated for
\* the calls that accepted at least one pair).
C11_HalfHourBins ==
    (pc = "weights" /\ Len(pairs) > 0)
        => /\ \A b \in 1..NBins : thist[b] = FloorCount(HalfHourCount(b))
           /\ \A b \in 2..(NBins - 1) : tbins2[b] = (2 * b - 1) * Day

====
